---- MODULE Spec2Model ----
(***************************************************************************)
(* Experiment orchestration scripts of Project2-1_Group4:                  *)
(*   run_experiment.py  the Run Launcher: config patch, hardware probe,    *)
(*                      trainer subprocess, metric extraction, CSV ledger  *)
(*   randomRuns.py      the Random-Run campaign driver                     *)
(* Three state machines share the ledger file csv_file:                    *)
(*   SpecLedger    several launcher processes appending to the ledger      *)
(*   SpecLauncher  one run of run_experiment.main                          *)
(*   SpecDriver    one campaign of randomRuns.main                         *)
(***************************************************************************)
EXTENDS Integers, Sequences, FiniteSets, TLC

VARIABLES
    \* ---- the ledger file data/experiments.csv and its appenders
    csv_file,       \* [exists, rows]: the file on disk, rows as [kind, by]
    sequential,     \* scheduling of the appenders: one at a time, or interleaved
    l_pc,           \* per process: position in ensure_header / the with-block
    attempt,        \* per process: the loop variable i of ensure_header
    exists,         \* per process: the local `exists` of ensure_header
    f,              \* per process: the unflushed buffer of the file object f
    opens,          \* per process: number of open() calls made
    sleeps,         \* per process: number of time.sleep(delay) calls made
    order,          \* the processes whose append finished, in finishing order
    \* ---- one run of run_experiment.main
    m_pc,           \* position in main
    args,           \* parsed arguments: behavior_name, algorithm, lr, batch_size, max_steps
    base_cfg,       \* the behaviors mapping of the base config as loaded
    behaviors,      \* the behaviors mapping as patched
    gen_cfg,        \* the generated config file: <<>> or <<behaviors written>>
    probe_env,      \* platform.system() and the outcomes of the query utilities
    gpu,            \* what detect_gpu returned: <<>> is None, <<pair>> a tuple
    trainer,        \* the trainer process: installed, started, stdout, read, returncode
    mean_rewards,   \* the list mean_rewards
    mean_reward,    \* the metric, a fraction [num, den]
    row,            \* the dict row handed to writer.writerow
    m_exit,         \* exit status of run_experiment.py: -1 while running
    m_error,        \* what ended the run early: "" when nothing did
    \* ---- one campaign of randomRuns.main
    d_pc,           \* position in main
    d_args,         \* args.env_path and args.no_graphics
    cmd,            \* the command line of the current run, after the script name
    num_runs,       \* args.num_runs
    range_percent,  \* args.range_percent, as the numerator of range_percent / PDen
    run_idx,        \* the loop variable run_idx
    windows,        \* per parameter: <<sampling_min, sampling_max>>, in units of 1/(2*PDen)
    random_params,  \* per parameter: the value drawn, in units of 1/(2*PDen)
    launched,       \* the runs handed to subprocess.check_call, 1-based, in order
    statuses,       \* exit status of each run that ended
    reported,       \* the count printed by the [ABORT] message: -1 when not printed
    interrupted,    \* whether a KeyboardInterrupt has arrived
    driver_exit,    \* exit status of randomRuns.py: -1 while running
    \* ---- one campaign of sweep.main
    s_pc,           \* position in main
    s_args,         \* args: start, end, steps, repeats, env_path
    s_cmd,          \* the command line of the current run, after the script name
    values,         \* the grid np.linspace returned, as fractions
    v_idx,          \* number of grid values the outer loop has finished
    repeat_idx,     \* the loop variable repeat_idx
    s_launched,     \* the runs handed to check_call, as <<value number, repeat number>>
    s_statuses,     \* exit status of each run that ended
    s_interrupted,  \* whether a KeyboardInterrupt has arrived
    s_exit          \* exit status of sweep.py: -1 while running

ledgerVars == <<csv_file, sequential, l_pc, attempt, exists, f, opens, sleeps, order>>
launcherVars == <<m_pc, args, base_cfg, behaviors, gen_cfg, probe_env, gpu, trainer,
                  mean_rewards, mean_reward, row, m_exit, m_error>>
driverVars == <<d_pc, d_args, cmd, num_runs, range_percent, run_idx, windows, random_params,
                launched, statuses, reported, interrupted, driver_exit>>
sweepVars == <<s_pc, s_args, s_cmd, values, v_idx, repeat_idx, s_launched, s_statuses,
               s_interrupted, s_exit>>
vars == <<ledgerVars, launcherVars, driverVars, sweepVars>>

(***************************************************************************)
(* Bounds of the model.                                                    *)
(***************************************************************************)
\* number of launcher processes that may append to the ledger
NProc == 2
\* lines of trainer output read in one run
MaxLines == 3
\* runs of one campaign
MaxRuns == 3
\* range_percent is a multiple of 1/PDen
PDen == 4
\* grid values of one sweep
MaxSteps == 3
\* repeats per grid value
MaxRepeats == 2

Procs == 1..NProc

(***************************************************************************)
(* Small helpers.                                                          *)
(***************************************************************************)
Max(a, b) == IF a >= b THEN a ELSE b
Min(a, b) == IF a <= b THEN a ELSE b
Abs(a) == IF a < 0 THEN 0 - a ELSE a

RECURSIVE GCD(_, _)
GCD(a, b) == IF b = 0 THEN a ELSE GCD(b, a % b)

\* a fraction in lowest terms with a positive denominator
Frac(n, d) ==
    LET g == GCD(Abs(n), Abs(d))
        s == IF d < 0 THEN 0 - 1 ELSE 1
    IN  [num |-> (s * n) \div g, den |-> (s * d) \div g]

RECURSIVE Pow10(_)
Pow10(k) == IF k = 0 THEN 1 ELSE 10 * Pow10(k - 1)

IsPrefix(s, t) == Len(s) <= Len(t) /\ \A k \in 1..Len(s) : s[k] = t[k]

(***************************************************************************)
(* Result Ledger: ensure_header and the with-block of main.                *)
(***************************************************************************)
\* retries=8, the default of ensure_header
retries == 8

HeaderRow(p) == [kind |-> "header", by |-> p]
DataRow(p) == [kind |-> "row", by |-> p]

\* exists = os.path.exists(csv_path)
EnsureHeaderCheck(p) ==
    /\ l_pc[p] = "check"
    /\ exists' = [exists EXCEPT ![p] = csv_file.exists]
    /\ l_pc' = [l_pc EXCEPT ![p] = "open"]
    /\ UNCHANGED <<csv_file, sequential, attempt, f, opens, sleeps, order>>
    /\ UNCHANGED <<launcherVars, driverVars, sweepVars>>

\* f = open(csv_path, "a"): creates the file when absent, or raises PermissionError
EnsureHeaderOpen(p) ==
    /\ l_pc[p] = "open"
    /\ opens' = [opens EXCEPT ![p] = @ + 1]
    /\ \E locked \in BOOLEAN :
          IF locked
          THEN /\ l_pc' = [l_pc EXCEPT ![p] = "except"]
               /\ UNCHANGED csv_file
          ELSE /\ l_pc' = [l_pc EXCEPT ![p] = "opened"]
               /\ csv_file' = [csv_file EXCEPT !.exists = TRUE]
    /\ UNCHANGED <<sequential, attempt, exists, f, sleeps, order>>
    /\ UNCHANGED <<launcherVars, driverVars, sweepVars>>

\* if not exists: writer.writeheader()
WritesHeaderBug(ex) == ex
WritesHeader(ex) == ~ex

\* if not exists: writer.writeheader(); return f, writer
EnsureHeaderReturn(p) ==
    /\ l_pc[p] = "opened"
    /\ f' = [f EXCEPT ![p] = IF WritesHeader(exists[p])
                             THEN Append(@, HeaderRow(p)) ELSE @]
    /\ l_pc' = [l_pc EXCEPT ![p] = "writerow"]
    /\ UNCHANGED <<csv_file, sequential, attempt, exists, opens, sleeps, order>>
    /\ UNCHANGED <<launcherVars, driverVars, sweepVars>>

\* if i == retries - 1: raise
IsLastAttemptBug(i) == i = retries
IsLastAttempt(i) == i = retries - 1

\* except PermissionError: re-raise on the last attempt, else warn, sleep and
\* take the next i of range(retries); a loop that runs out returns None, which
\* main cannot unpack
EnsureHeaderExcept(p) ==
    /\ l_pc[p] = "except"
    /\ IF IsLastAttempt(attempt[p])
       THEN /\ l_pc' = [l_pc EXCEPT ![p] = "raised"]
            /\ UNCHANGED <<attempt, sleeps>>
       ELSE /\ sleeps' = [sleeps EXCEPT ![p] = @ + 1]
            /\ attempt' = [attempt EXCEPT ![p] = @ + 1]
            /\ l_pc' = [l_pc EXCEPT ![p] =
                           IF attempt[p] + 1 < retries THEN "check" ELSE "fell_through"]
    /\ UNCHANGED <<csv_file, sequential, exists, f, opens, order>>
    /\ UNCHANGED <<launcherVars, driverVars, sweepVars>>

\* writer.writerow(row), inside `with f:`
WriteRow(p) ==
    /\ l_pc[p] = "writerow"
    /\ f' = [f EXCEPT ![p] = Append(@, DataRow(p))]
    /\ l_pc' = [l_pc EXCEPT ![p] = "close"]
    /\ UNCHANGED <<csv_file, sequential, attempt, exists, opens, sleeps, order>>
    /\ UNCHANGED <<launcherVars, driverVars, sweepVars>>

\* leaving `with f:` closes f: the buffered text is appended to the file
CloseFile(p) ==
    /\ l_pc[p] = "close"
    /\ csv_file' = [csv_file EXCEPT !.rows = @ \o f[p]]
    /\ f' = [f EXCEPT ![p] = <<>>]
    /\ l_pc' = [l_pc EXCEPT ![p] = "done"]
    /\ order' = Append(order, p)
    /\ UNCHANGED <<sequential, attempt, exists, opens, sleeps>>
    /\ UNCHANGED <<launcherVars, driverVars, sweepVars>>

Appending(p) == l_pc[p] \in {"check", "open", "opened", "except", "writerow", "close"}

\* f, writer = ensure_header(csv_path, fieldnames): a launcher process reaches its
\* ledger stage; under sequential scheduling only when no other append is under way
CallEnsureHeader(p) ==
    /\ l_pc[p] = "idle"
    /\ sequential => \A q \in Procs : ~Appending(q)
    /\ l_pc' = [l_pc EXCEPT ![p] = "check"]
    /\ UNCHANGED <<csv_file, sequential, attempt, exists, f, opens, sleeps, order>>
    /\ UNCHANGED <<launcherVars, driverVars, sweepVars>>

\* the ledger before any launcher reaches it: absent, or left by earlier runs
FreshFile == [exists |-> FALSE, rows |-> <<>>]
EarlierFile == [exists |-> TRUE, rows |-> <<HeaderRow(0), DataRow(0)>>]

LedgerIdle ==
    /\ l_pc = [p \in Procs |-> "idle"]
    /\ attempt = [p \in Procs |-> 0]
    /\ exists = [p \in Procs |-> FALSE]
    /\ f = [p \in Procs |-> <<>>]
    /\ opens = [p \in Procs |-> 0]
    /\ sleeps = [p \in Procs |-> 0]
    /\ order = <<>>

(***************************************************************************)
(* Text handling shared by metric extraction and the hardware probe.       *)
(* A text is a sequence of characters; "MR" stands for the literal         *)
(* `Mean Reward:`, "x" for any character outside the class [0-9.+-e]       *)
(* (f..z and the like), "a" for a letter inside it, " " for whitespace.    *)
(* No text holds an exponent, an underscore, inf or nan.                   *)
(***************************************************************************)
Digits == {"0", "1", "2", "3", "4", "5", "6", "7", "8", "9"}

DigitVal(c) ==
    CASE c = "0" -> 0 [] c = "1" -> 1 [] c = "2" -> 2 [] c = "3" -> 3 [] c = "4" -> 4
      [] c = "5" -> 5 [] c = "6" -> 6 [] c = "7" -> 7 [] c = "8" -> 8 [] c = "9" -> 9

\* the class [0-9.+-e]: the digits, the dot, and every character from '+' to 'e',
\* among them the comma and the minus sign
InClass(c) == c \in Digits \cup {".", "+", ",", "-", "a"}

\* str.rstrip(".")
RECURSIVE RStripDots(_)
RStripDots(s) ==
    IF s # <<>> /\ s[Len(s)] = "." THEN RStripDots(SubSeq(s, 1, Len(s) - 1)) ELSE s

Unsigned(s) == IF s # <<>> /\ s[1] \in {"-", "+"} THEN Tail(s) ELSE s

\* whether float(s) succeeds: an optional sign, digits with at most one dot,
\* at least one digit
FloatOk(s) ==
    LET b == Unsigned(s)
    IN  /\ \A k \in 1..Len(b) : b[k] \in Digits \cup {"."}
        /\ Cardinality({k \in 1..Len(b) : b[k] = "."}) <= 1
        /\ \E k \in 1..Len(b) : b[k] \in Digits

RECURSIVE DigitsValue(_)
DigitsValue(s) ==
    IF s = <<>> THEN 0
    ELSE IF s[Len(s)] = "." THEN DigitsValue(SubSeq(s, 1, Len(s) - 1))
    ELSE 10 * DigitsValue(SubSeq(s, 1, Len(s) - 1)) + DigitVal(s[Len(s)])

\* float(s) for a text FloatOk accepts, as a fraction
FloatVal(s) ==
    LET b == Unsigned(s)
        dots == {k \in 1..Len(b) : b[k] = "."}
        decimals == IF dots = {} THEN 0 ELSE Len(b) - (CHOOSE k \in dots : TRUE)
        sign == IF s[1] = "-" THEN 0 - 1 ELSE 1
    IN  Frac(sign * DigitsValue(b), Pow10(decimals))

\* the first position from j on that holds no whitespace
RECURSIVE SkipSpace(_, _)
SkipSpace(line, j) ==
    IF j <= Len(line) /\ line[j] = " " THEN SkipSpace(line, j + 1) ELSE j

\* the first position from j on that holds no character of the class
RECURSIVE ClassEnd(_, _)
ClassEnd(line, j) ==
    IF j <= Len(line) /\ InClass(line[j]) THEN ClassEnd(line, j + 1) ELSE j

\* group 1 of r"Mean Reward:\s*([0-9.+-e]+)" with the marker at position k:
\* <<>> when the pattern does not match there
GroupAt(line, k) ==
    LET j == SkipSpace(line, k + 1)
    IN  SubSeq(line, j, ClassEnd(line, j) - 1)

\* re.search(r"Mean Reward:\s*([0-9.+-e]+)", line): <<>> for no match, else
\* <<group 1>> of the leftmost match
Search(line) ==
    LET at == {k \in 1..Len(line) : line[k] = "MR" /\ GroupAt(line, k) # <<>>}
    IN  IF at = {} THEN <<>>
        ELSE <<GroupAt(line, CHOOSE k \in at : \A k2 \in at : k <= k2)>>

\* value = float(match.group(1).rstrip(".")); mean_rewards.append(value);
\* a ValueError leaves the list as it is
AppendsUnparsedBug(rewards, line) ==
    LET m == Search(line)
    IN  IF m = <<>> THEN rewards
        ELSE IF FloatOk(RStripDots(m[1])) THEN Append(rewards, FloatVal(RStripDots(m[1])))
        ELSE Append(rewards, Frac(0, 1))
ScanLine(rewards, line) ==
    LET m == Search(line)
    IN  IF m = <<>> THEN rewards
        ELSE IF FloatOk(RStripDots(m[1])) THEN Append(rewards, FloatVal(RStripDots(m[1])))
        ELSE rewards

RECURSIVE SumFrac(_)
SumFrac(seq) ==
    IF seq = <<>> THEN Frac(0, 1)
    ELSE LET r == SumFrac(Tail(seq))
         IN  Frac(seq[1].num * r.den + r.num * seq[1].den, seq[1].den * r.den)

\* mean_reward = sum(mean_rewards) / len(mean_rewards) if mean_rewards else 0.0
MeanOf(rewards) ==
    IF rewards # <<>>
    THEN LET s == SumFrac(rewards) IN Frac(s.num, s.den * Len(rewards))
    ELSE Frac(0, 1)

\* the lines a trainer may print, each with the reward it reports (<<>>: none)
LineSamples ==
    { [text |-> <<"x", " ", "x">>, reward |-> <<>>],
      [text |-> <<"x", " ", "MR", " ", "1", ".", "0", ".", " ", "x">>,
       reward |-> <<Frac(1, 1)>>],
      [text |-> <<"MR", " ", "2", ".", "0">>, reward |-> <<Frac(2, 1)>>],
      [text |-> <<"MR", "3">>, reward |-> <<Frac(3, 1)>>],
      [text |-> <<"MR", " ", "-", "1", ".", "5", ".">>, reward |-> <<Frac(0 - 3, 2)>>],
      [text |-> <<"MR", " ", "x">>, reward |-> <<>>],
      [text |-> <<"MR", " ", "1", ",", "2">>, reward |-> <<>>],
      [text |-> <<"MR", " ", "a">>, reward |-> <<>>] }

(***************************************************************************)
(* Hardware Prober: detect_gpu.                                            *)
(* The first line of nvidia-smi's output is a sequence of comma-separated  *)
(* fields, a field a sequence of whitespace-separated tokens, a token a    *)
(* text. system_profiler's report is a sequence of lines, each a chipset   *)
(* line, a VRAM line or another line, with the text its pattern captures.  *)
(***************************************************************************)
MiBTok == <<"M", "i", "B">>

\* "MiB" in mem
HasMiB(mem) == \E k \in 1..Len(mem) : mem[k] = MiBTok

\* for token in mem.split(): mem_gb = float(token) / 1024.0 if "MiB" in mem
\* else float(token), a token float() rejects being passed over
RECURSIVE MemGb(_, _, _)
MemGb(mem, k, mem_gb) ==
    IF k > Len(mem) THEN mem_gb
    ELSE IF FloatOk(mem[k])
         THEN LET v == FloatVal(mem[k])
              IN  MemGb(mem, k + 1,
                        <<IF HasMiB(mem) THEN Frac(v.num, v.den * 1024) ELSE v>>)
         ELSE MemGb(mem, k + 1, mem_gb)

\* the windows/linux branch
DetectNvidia(smi) ==
    IF smi.status # "ok" THEN [name |-> <<>>, mem |-> <<>>]       \* except Exception
    ELSE IF smi.out = <<>> THEN [name |-> <<>>, mem |-> <<>>]     \* if out: is false
    ELSE IF Len(smi.out) # 2 THEN [name |-> <<>>, mem |-> <<>>]   \* unpacking fails
    ELSE [name |-> <<smi.out[1]>>, mem |-> MemGb(smi.out[2], 1, <<>>)]

\* the loop over output.splitlines(): the name of the last chipset line seen,
\* and the value of the first VRAM line, at which the loop breaks
RECURSIVE ScanProfiler(_, _, _)
ScanProfiler(lines, k, name) ==
    IF k > Len(lines) THEN [name |-> name, mem |-> <<>>]
    ELSE IF lines[k].kind = "vram" THEN [name |-> name, mem |-> <<lines[k].value>>]
    ELSE IF lines[k].kind = "chipset" THEN ScanProfiler(lines, k + 1, <<lines[k].value>>)
    ELSE ScanProfiler(lines, k + 1, name)

\* "Apple" in name
HasApple(name) == name \in {"Apple M1"}

\* the darwin branch
DetectApple(profiler, hardware) ==
    IF profiler.status # "ok" THEN [name |-> <<>>, mem |-> <<>>]
    ELSE LET r == ScanProfiler(profiler.lines, 1, <<>>)
             no_mem == r.mem = <<>> \/ r.mem = <<"">>
         IN  IF ~no_mem THEN r
             ELSE IF r.name = <<>> THEN [name |-> <<>>, mem |-> <<>>]   \* TypeError
             ELSE IF ~HasApple(r.name[1]) THEN [name |-> r.name, mem |-> <<>>]
             ELSE IF hardware.status # "ok" THEN [name |-> <<>>, mem |-> <<>>]
             ELSE [name |-> r.name, mem |-> hardware.memory]

\* platform.system() is none of windows, linux, darwin: no return statement is
\* reached and the call yields None
ReturnOnOtherPlatform == <<>>

\* detect_gpu(): <<>> is Python's None, <<pair>> the tuple returned
detect_gpu(env) ==
    IF env.system \in {"windows", "linux"} THEN <<DetectNvidia(env.smi)>>
    ELSE IF env.system = "darwin" THEN <<DetectApple(env.profiler, env.hardware)>>
    ELSE ReturnOnOtherPlatform

NoSmi == [status |-> "missing", out |-> <<>>]
NoProfiler == [status |-> "missing", lines |-> <<>>]
NoHardware == [status |-> "missing", memory |-> <<>>]

SmiOutcomes ==
    { NoSmi,
      [status |-> "timeout", out |-> <<>>],
      [status |-> "nonzero", out |-> << <<<<"x">>>> >>],
      [status |-> "ok", out |-> <<>>],
      [status |-> "ok", out |-> << <<<<"x">>>> >>],
      [status |-> "ok", out |-> << <<<<"T", "4">>>>, <<<<"x">>>>, <<<<"x">>>> >>],
      [status |-> "ok", out |-> << <<<<"T", "4">>>>, <<<<"x">>>> >>],
      [status |-> "ok", out |-> << <<<<"T", "4">>>>, <<<<"2", "0", "4", "8">>, MiBTok>> >>],
      [status |-> "ok", out |-> << <<<<"T", "4">>>>, <<<<"1", "6">>, <<"x">>>> >>] }

ProfilerOutcomes ==
    { NoProfiler,
      [status |-> "ok", lines |-> << [kind |-> "other", value |-> ""] >>],
      [status |-> "ok", lines |-> << [kind |-> "vram", value |-> "8 GB"] >>],
      [status |-> "ok", lines |-> << [kind |-> "chipset", value |-> "AMD Radeon"] >>],
      [status |-> "ok", lines |-> << [kind |-> "chipset", value |-> "AMD Radeon"],
                                     [kind |-> "vram", value |-> "8 GB"] >>],
      [status |-> "ok", lines |-> << [kind |-> "chipset", value |-> "Apple M1"],
                                     [kind |-> "other", value |-> ""] >>] }

HardwareOutcomes ==
    { NoHardware,
      [status |-> "ok", memory |-> <<>>],
      [status |-> "ok", memory |-> <<"16 GB">>] }

\* platform.system().lower() and what the query utilities do on that platform
ProbeEnvs ==
    { [system |-> sys, smi |-> o, profiler |-> NoProfiler, hardware |-> NoHardware] :
          sys \in {"windows", "linux"}, o \in SmiOutcomes }
    \cup
    { [system |-> "darwin", smi |-> NoSmi, profiler |-> o, hardware |-> h] :
          o \in ProfilerOutcomes, h \in HardwareOutcomes }
    \cup
    { [system |-> "freebsd", smi |-> NoSmi, profiler |-> NoProfiler,
       hardware |-> NoHardware] }

DefaultProbeEnv ==
    [system |-> "linux",
     smi |-> [status |-> "ok",
              out |-> << <<<<"T", "4">>>>, <<<<"2", "0", "4", "8">>, MiBTok>> >>],
     profiler |-> NoProfiler, hardware |-> NoHardware]

(***************************************************************************)
(* Config Patcher: the behaviors mapping of the base config in main.       *)
(***************************************************************************)
Placeholder == "__BEHAVIOR_NAME__"

SetKey(d, k, v) == [x \in DOMAIN d \cup {k} |-> IF x = k THEN v ELSE d[x]]
RemoveKey(d, k) == [x \in DOMAIN d \ {k} |-> d[x]]

\* behaviors[args.behavior_name] = behaviors.pop("__BEHAVIOR_NAME__"), when the
\* placeholder is a key and the behavior name is not
CopyPlaceholderBug(b, name) ==
    IF Placeholder \in DOMAIN b /\ name \notin DOMAIN b
    THEN SetKey(b, name, b[Placeholder])
    ELSE b
RenamePlaceholder(b, name) ==
    IF Placeholder \in DOMAIN b /\ name \notin DOMAIN b
    THEN SetKey(RemoveKey(b, Placeholder), name, b[Placeholder])
    ELSE b

\* b["trainer_type"] = ...; hp = b.setdefault("hyperparameters", {});
\* hp["learning_rate"] = ...; hp["batch_size"] = ...; b["max_steps"] when given
PatchFields(b, a) ==
    LET hp0 == IF "hyperparameters" \in DOMAIN b THEN b.hyperparameters
               ELSE [x \in {} |-> 0]
        hp == SetKey(SetKey(hp0, "learning_rate", a.lr), "batch_size", a.batch_size)
        b1 == SetKey(SetKey(b, "trainer_type", a.algorithm), "hyperparameters", hp)
    IN  IF a.max_steps # <<>> THEN SetKey(b1, "max_steps", a.max_steps[1]) ELSE b1

\* the entries a base config may hold under each key
EntryOf(k) ==
    CASE k = Placeholder ->
           [trainer_type |-> "ppo",
            hyperparameters |-> [learning_rate |-> 1, batch_size |-> 64,
                                 buffer_size |-> 10240],
            max_steps |-> 500000]
      [] k = "Goalie" ->
           [trainer_type |-> "ppo", hyperparameters |-> [batch_size |-> 128]]
      [] OTHER -> [trainer_type |-> "sac"]

BaseConfigs == { [k \in ks |-> EntryOf(k)] : ks \in SUBSET {Placeholder, "Goalie", "Striker"} }

\* learning rates in units of 1e-4
ArgSamples ==
    { [behavior_name |-> n, algorithm |-> alg, lr |-> 3, batch_size |-> 2048,
       max_steps |-> ms] :
          n \in {"Goalie", Placeholder}, alg \in {"ppo", "sac"},
          ms \in {<<>>, <<50000>>} }

DefaultArgs ==
    [behavior_name |-> "Goalie", algorithm |-> "sac", lr |-> 3, batch_size |-> 2048,
     max_steps |-> <<>>]
DefaultConfig == [k \in {Placeholder} |-> EntryOf(k)]

(***************************************************************************)
(* Run Launcher: run_experiment.main, after argument parsing.  The         *)
(* launcher is appender 1 of the ledger.                                   *)
(***************************************************************************)
Me == 1

\* load the base config, rename the placeholder, exit 2 on a missing behavior,
\* else patch the fields and write the generated config
PatchConfig ==
    /\ m_pc = "start"
    /\ LET renamed == RenamePlaceholder(base_cfg, args.behavior_name)
       IN  IF args.behavior_name \notin DOMAIN renamed
           THEN /\ behaviors' = renamed
                /\ m_pc' = "exit"
                /\ m_exit' = 2
                /\ m_error' = "ConfigError"
                /\ UNCHANGED gen_cfg
           ELSE /\ behaviors' = [renamed EXCEPT ![args.behavior_name] =
                                     PatchFields(@, args)]
                /\ gen_cfg' = <<behaviors'>>
                /\ m_pc' = "probe"
                /\ UNCHANGED <<m_exit, m_error>>
    /\ UNCHANGED <<args, base_cfg, probe_env, gpu, trainer, mean_rewards, mean_reward, row>>
    /\ UNCHANGED <<ledgerVars, driverVars, sweepVars>>

\* gpu_name, gpu_mem_gb = detect_gpu(): unpacking None raises TypeError
DetectHardware ==
    /\ m_pc = "probe"
    /\ gpu' = detect_gpu(probe_env)
    /\ IF gpu' = <<>>
       THEN m_pc' = "crashed" /\ m_exit' = 1 /\ m_error' = "TypeError"
       ELSE m_pc' = "launch" /\ UNCHANGED <<m_exit, m_error>>
    /\ UNCHANGED <<args, base_cfg, behaviors, gen_cfg, probe_env, trainer, mean_rewards,
                   mean_reward, row>>
    /\ UNCHANGED <<ledgerVars, driverVars, sweepVars>>

\* proc = subprocess.Popen(cmd, ...): FileNotFoundError exits 127
LaunchTrainer ==
    /\ m_pc = "launch"
    /\ \E installed \in BOOLEAN :
          IF installed
          THEN /\ trainer' = [trainer EXCEPT !.started = TRUE]
               /\ m_pc' = "read"
               /\ UNCHANGED <<m_exit, m_error>>
          ELSE /\ m_pc' = "exit"
               /\ m_exit' = 127
               /\ m_error' = "LauncherNotFound"
               /\ UNCHANGED trainer
    /\ UNCHANGED <<args, base_cfg, behaviors, gen_cfg, probe_env, gpu, mean_rewards,
                   mean_reward, row>>
    /\ UNCHANGED <<ledgerVars, driverVars, sweepVars>>

\* one pass of `for line in proc.stdout:`
ReadLine ==
    /\ m_pc = "read"
    /\ trainer.read < Len(trainer.stdout)
    /\ mean_rewards' = ScanLine(mean_rewards, trainer.stdout[trainer.read + 1].text)
    /\ trainer' = [trainer EXCEPT !.read = @ + 1]
    /\ UNCHANGED <<m_pc, args, base_cfg, behaviors, gen_cfg, probe_env, gpu, mean_reward,
                   row, m_exit, m_error>>
    /\ UNCHANGED <<ledgerVars, driverVars, sweepVars>>

\* the dict row of main: the fields the model carries
BuildRow(a, b, g, metric) ==
    [run_id |-> <<a.behavior_name, a.algorithm, a.lr, a.batch_size>>,
     algorithm |-> a.algorithm,
     learning_rate |-> a.lr,
     batch_size |-> a.batch_size,
     behavior_name |-> a.behavior_name,
     max_steps |-> IF "max_steps" \in DOMAIN b THEN <<b.max_steps>> ELSE <<>>,
     gpu_name |-> g.name,
     gpu_mem_gb |-> g.mem,
     mean_reward |-> metric]

\* proc.wait(), the mean of mean_rewards, the row, and the call of ensure_header
WaitAndRecord ==
    /\ m_pc = "read"
    /\ trainer.read = Len(trainer.stdout)
    /\ \E rc \in {0, 1} : trainer' = [trainer EXCEPT !.returncode = rc]
    /\ mean_reward' = MeanOf(mean_rewards)
    /\ row' = BuildRow(args, behaviors[args.behavior_name], gpu[1], mean_reward')
    /\ m_pc' = "ledger"
    /\ l_pc' = [l_pc EXCEPT ![Me] = "check"]
    /\ UNCHANGED <<args, base_cfg, behaviors, gen_cfg, probe_env, gpu, mean_rewards,
                   m_exit, m_error>>
    /\ UNCHANGED <<csv_file, sequential, attempt, exists, f, opens, sleeps, order>>
    /\ UNCHANGED <<driverVars, sweepVars>>

\* the row is in the ledger: print [DONE] and return
LoggedRun ==
    /\ m_pc = "ledger"
    /\ l_pc[Me] = "done"
    /\ m_pc' = "done"
    /\ m_exit' = 0
    /\ UNCHANGED <<args, base_cfg, behaviors, gen_cfg, probe_env, gpu, trainer,
                   mean_rewards, mean_reward, row, m_error>>
    /\ UNCHANGED <<ledgerVars, driverVars, sweepVars>>

\* ensure_header re-raised PermissionError: main does not catch it
LedgerLocked ==
    /\ m_pc = "ledger"
    /\ l_pc[Me] = "raised"
    /\ m_pc' = "crashed"
    /\ m_exit' = 1
    /\ m_error' = "PermissionError"
    /\ UNCHANGED <<args, base_cfg, behaviors, gen_cfg, probe_env, gpu, trainer,
                   mean_rewards, mean_reward, row>>
    /\ UNCHANGED <<ledgerVars, driverVars, sweepVars>>

NoRow ==
    [run_id |-> <<>>, algorithm |-> "", learning_rate |-> 0, batch_size |-> 0,
     behavior_name |-> "", max_steps |-> <<>>, gpu_name |-> <<>>, gpu_mem_gb |-> <<>>,
     mean_reward |-> Frac(0, 1)]

\* every output of at most MaxLines lines
Outputs == UNION { [1..n -> LineSamples] : n \in 0..MaxLines }
DefaultOutput == << CHOOSE l \in LineSamples : l.text = <<"MR", "3">> >>

\* main has parsed its arguments; nothing else has happened
LauncherAt(a, cfg, env, out) ==
    /\ m_pc = "start"
    /\ args = a
    /\ base_cfg = cfg
    /\ behaviors = cfg
    /\ gen_cfg = <<>>
    /\ probe_env = env
    /\ gpu = <<>>
    /\ trainer = [started |-> FALSE, stdout |-> out, read |-> 0, returncode |-> -1]
    /\ mean_rewards = <<>>
    /\ mean_reward = Frac(0, 1)
    /\ row = NoRow
    /\ m_exit = -1
    /\ m_error = ""

\* no run of the launcher takes part
LauncherIdle ==
    /\ m_pc = "off"
    /\ args = DefaultArgs
    /\ base_cfg = DefaultConfig
    /\ behaviors = DefaultConfig
    /\ gen_cfg = <<>>
    /\ probe_env = DefaultProbeEnv
    /\ gpu = <<>>
    /\ trainer = [started |-> FALSE, stdout |-> <<>>, read |-> 0, returncode |-> -1]
    /\ mean_rewards = <<>>
    /\ mean_reward = Frac(0, 1)
    /\ row = NoRow
    /\ m_exit = -1
    /\ m_error = ""

(***************************************************************************)
(* Command lines: the parser of run_experiment.main and argparse's         *)
(* parse_args.  An option name is the sequence of its characters after the *)
(* leading "--", so that argparse's prefix matching can be computed.       *)
(***************************************************************************)
\* the options run_experiment.py defines
o_help == <<"h", "e", "l", "p">>
o_algorithm == <<"a", "l", "g", "o", "r", "i", "t", "h", "m">>
o_lr == <<"l", "r">>
o_batch_size == <<"b", "a", "t", "c", "h", "-", "s", "i", "z", "e">>
o_env == <<"e", "n", "v">>
o_behavior_name == <<"b", "e", "h", "a", "v", "i", "o", "r", "-", "n", "a", "m", "e">>
o_max_steps == <<"m", "a", "x", "-", "s", "t", "e", "p", "s">>
o_seed == <<"s", "e", "e", "d">>
o_results_dir == <<"r", "e", "s", "u", "l", "t", "s", "-", "d", "i", "r">>
o_base_config == <<"b", "a", "s", "e", "-", "c", "o", "n", "f", "i", "g">>
o_run_tag == <<"r", "u", "n", "-", "t", "a", "g">>
o_no_graphics == <<"n", "o", "-", "g", "r", "a", "p", "h", "i", "c", "s">>
\* the other option names the drivers write
o_buffer_size == <<"b", "u", "f", "f", "e", "r", "-", "s", "i", "z", "e">>
o_learning_rate == <<"l", "e", "a", "r", "n", "i", "n", "g", "-", "r", "a", "t", "e">>
o_beta == <<"b", "e", "t", "a">>
o_epsilon == <<"e", "p", "s", "i", "l", "o", "n">>
o_lambd == <<"l", "a", "m", "b", "d">>
o_num_epoch == <<"n", "u", "m", "-", "e", "p", "o", "c", "h">>
o_hidden_units == <<"h", "i", "d", "d", "e", "n", "-", "u", "n", "i", "t", "s">>
o_num_layers == <<"n", "u", "m", "-", "l", "a", "y", "e", "r", "s">>
o_gamma == <<"g", "a", "m", "m", "a">>
o_reward_strength == <<"r", "e", "w", "a", "r", "d", "-", "s", "t", "r", "e", "n", "g", "t", "h">>
o_time_horizon == <<"t", "i", "m", "e", "-", "h", "o", "r", "i", "z", "o", "n">>
o_summary_freq == <<"s", "u", "m", "m", "a", "r", "y", "-", "f", "r", "e", "q">>
o_learning_rate_schedule == <<"l", "e", "a", "r", "n", "i", "n", "g", "-", "r", "a", "t", "e", "-", "s", "c", "h", "e", "d", "u", "l", "e">>
o_normalize == <<"n", "o", "r", "m", "a", "l", "i", "z", "e">>
o_set == <<"s", "e", "t">>

\* parser.add_argument(...): type is the conversion, or the action of an
\* option that takes no value; -h/--help is added by ArgumentParser itself
parser ==
    {[name |-> o_help, type |-> "help", required |-> FALSE],
     [name |-> o_algorithm, type |-> "choice", required |-> FALSE],
     [name |-> o_lr, type |-> "float", required |-> TRUE],
     [name |-> o_batch_size, type |-> "int", required |-> TRUE],
     [name |-> o_env, type |-> "str", required |-> FALSE],
     [name |-> o_behavior_name, type |-> "str", required |-> TRUE],
     [name |-> o_max_steps, type |-> "int", required |-> FALSE],
     [name |-> o_seed, type |-> "int", required |-> FALSE],
     [name |-> o_results_dir, type |-> "str", required |-> FALSE],
     [name |-> o_base_config, type |-> "str", required |-> FALSE],
     [name |-> o_run_tag, type |-> "str", required |-> FALSE],
     [name |-> o_no_graphics, type |-> "store_true", required |-> FALSE]}

\* one element of argv after the script name.  dashes: it starts with "--";
\* name: the characters between "--" and "=" (or the end); val: the kind of
\* text after "=", "none" without "=".  A word has no name and its own text
\* as val.  Kinds of text: "int" (an integer literal), "float" (another
\* number), "algo" (ppo or sac), "str" (anything else)
Opt(name, val) == [dashes |-> TRUE, name |-> name, val |-> val]
Word(val) == [dashes |-> FALSE, name |-> <<>>, val |-> val]

\* argparse._parse_optional: the option whose string is exactly the one given,
\* else every option whose string starts with it
Matches(name) ==
    IF \E o \in parser : o.name = name THEN {o \in parser : o.name = name}
    ELSE {o \in parser : IsPrefix(name, o.name)}

\* type=int, type=float, choices=["ppo", "sac"] or no conversion
Converts(type, val) ==
    CASE type = "int" -> val = "int"
      [] type = "float" -> val \in {"int", "float"}
      [] type = "choice" -> val = "algo"
      [] OTHER -> TRUE

\* parse_args went through: main goes on
Parsed == 0 - 1

\* the actions run left to right from element i; seen: the options met so far,
\* extras: whether an unrecognised element was met.  An option that takes a
\* value written without "=" takes the next word.  Returns the exit status of
\* the process, or Parsed
RECURSIVE ConsumeFrom(_, _, _, _)
ConsumeFrom(argv, i, seen, extras) ==
    IF i > Len(argv)
    THEN IF \E o \in parser : o.required /\ o.name \notin seen THEN 2
         ELSE IF extras THEN 2
         ELSE Parsed
    ELSE LET e == argv[i]
             m == Matches(e.name)
         IN  IF ~e.dashes \/ m = {} THEN ConsumeFrom(argv, i + 1, seen, TRUE)
             ELSE LET o == CHOOSE x \in m : TRUE
                  IN  IF o.type = "help" THEN IF e.val = "none" THEN 0 ELSE 2
                      ELSE IF o.type = "store_true"
                      THEN IF e.val = "none"
                           THEN ConsumeFrom(argv, i + 1, seen \cup {o.name}, extras)
                           ELSE 2
                      ELSE IF e.val # "none"
                      THEN IF Converts(o.type, e.val)
                           THEN ConsumeFrom(argv, i + 1, seen \cup {o.name}, extras)
                           ELSE 2
                      ELSE IF /\ i + 1 <= Len(argv)
                              /\ ~argv[i + 1].dashes
                              /\ Converts(o.type, argv[i + 1].val)
                      THEN ConsumeFrom(argv, i + 2, seen \cup {o.name}, extras)
                      ELSE 2

\* args = parser.parse_args(): an ambiguous abbreviation, a failed conversion,
\* a missing required option or an unrecognised element ends the process with
\* status 2
parse_args(argv) ==
    IF \E i \in 1..Len(argv) : argv[i].dashes /\ Cardinality(Matches(argv[i].name)) > 1
    THEN 2
    ELSE ConsumeFrom(argv, 1, {}, FALSE)

\* str.lower of the sampled paths
Lower(path) == IF path = "None" THEN "none" ELSE path

(***************************************************************************)
(* Random-Run driver: randomRuns.main.                                     *)
(* A parameter's min and max are integers in the parameter's own unit      *)
(* (1/per); range_percent is range_percent / PDen; windows and drawn       *)
(* values are in units of 1/W of the parameter's unit, which makes center, *)
(* reduced_range / 2 and the window bounds integers.                       *)
(***************************************************************************)
W == 2 * PDen

param_ranges ==
    [batch_size      |-> [min |-> 512,  max |-> 4096,  per |-> 1],
     buffer_size     |-> [min |-> 2048, max |-> 20480, per |-> 1],
     learning_rate   |-> [min |-> 1,    max |-> 100,   per |-> 100000],
     beta            |-> [min |-> 1,    max |-> 1000,  per |-> 100000],
     epsilon         |-> [min |-> 1,    max |-> 100,   per |-> 100],
     lambd           |-> [min |-> 80,   max |-> 99,    per |-> 100],
     num_epoch       |-> [min |-> 1,    max |-> 10,    per |-> 1],
     hidden_units    |-> [min |-> 64,   max |-> 512,   per |-> 1],
     num_layers      |-> [min |-> 1,    max |-> 5,     per |-> 1],
     gamma           |-> [min |-> 900,  max |-> 999,   per |-> 1000],
     reward_strength |-> [min |-> 5,    max |-> 20,    per |-> 10],
     time_horizon    |-> [min |-> 32,   max |-> 256,   per |-> 1]]

params_to_randomize == DOMAIN param_ranges

integer_params ==
    {"batch_size", "buffer_size", "num_epoch", "hidden_units", "num_layers", "time_horizon"}

\* center - reduced_range / 2, in units of 1/W
WindowLow(r, rp) == (r.min + r.max) * PDen - (r.max - r.min) * rp

\* center + reduced_range / 2, in units of 1/W
WindowHigh(r, rp) == (r.min + r.max) * PDen + (r.max - r.min) * rp

\* sampling_min = max(sampling_min, min_val); sampling_max = min(sampling_max, max_val)
UnclampedWindowBug(r, rp) == << WindowLow(r, rp), WindowHigh(r, rp) >>
SamplingWindow(r, rp) ==
    << Max(WindowLow(r, rp), r.min * W), Min(WindowHigh(r, rp), r.max * W) >>

\* the values a draw may take, reduced to the two ends of its range:
\* random.randint(int(sampling_min), int(sampling_max)) for an integer parameter,
\* a value of [sampling_min, sampling_max] otherwise
DrawEnds(param, win) ==
    IF param \in integer_params
    THEN << (win[1] \div W) * W, (win[2] \div W) * W >>
    ELSE win

\* lines 59-139: the next run_idx of range(num_runs), the sampling, the command
\* the text of a drawn value: randint gives an integer, uniform a float
TextKind(q) == IF q \in integer_params THEN "int" ELSE "float"

\* cmd = [sys.executable, "run_experiment.py", ...] and the appends that follow
RandomRunCommand(a) ==
    <<Opt(o_behavior_name, "str"), Opt(o_algorithm, "algo"), Opt(o_seed, "int"),
      Opt(o_batch_size, TextKind("batch_size")),
      Opt(o_buffer_size, TextKind("buffer_size")),
      Opt(o_learning_rate, TextKind("learning_rate")),
      Opt(o_beta, TextKind("beta")),
      Opt(o_epsilon, TextKind("epsilon")),
      Opt(o_lambd, TextKind("lambd")),
      Opt(o_num_epoch, TextKind("num_epoch")),
      Opt(o_hidden_units, TextKind("hidden_units")),
      Opt(o_num_layers, TextKind("num_layers")),
      Opt(o_gamma, TextKind("gamma")),
      Opt(o_reward_strength, TextKind("reward_strength")),
      Opt(o_time_horizon, TextKind("time_horizon")),
      Opt(o_max_steps, "int"), Opt(o_summary_freq, "int"),
      Opt(o_learning_rate_schedule, "str"), Opt(o_normalize, "str")>>
    \o (IF Lower(a.env_path) # "none" THEN <<Opt(o_env, "str")>> ELSE <<>>)
    \o (IF a.no_graphics THEN <<Opt(o_no_graphics, "none")>> ELSE <<>>)
    \o <<Opt(o_run_tag, "str")>>

DriverSample ==
    /\ d_pc = "loop"
    /\ run_idx < num_runs
    /\ windows' = [q \in params_to_randomize |->
                      SamplingWindow(param_ranges[q], range_percent)]
    /\ \E end \in {1, 2} :
          random_params' = [q \in params_to_randomize |-> DrawEnds(q, windows'[q])[end]]
    /\ cmd' = RandomRunCommand(d_args)
    /\ d_pc' = "exec"
    /\ UNCHANGED <<d_args, num_runs, range_percent, run_idx, launched, statuses, reported,
                   interrupted, driver_exit>>
    /\ UNCHANGED <<ledgerVars, launcherVars, sweepVars>>

\* subprocess.check_call(cmd) starts run_experiment.py
DriverExec ==
    /\ d_pc = "exec"
    /\ launched' = Append(launched, run_idx + 1)
    /\ d_pc' = "wait"
    /\ UNCHANGED <<d_args, cmd, num_runs, range_percent, run_idx, windows, random_params, statuses,
                   reported, interrupted, driver_exit>>
    /\ UNCHANGED <<ledgerVars, launcherVars, sweepVars>>

\* what one uncontended append of run k leaves in the ledger
AppendedBy(file, k) ==
    [exists |-> TRUE,
     rows |-> file.rows \o (IF file.exists THEN <<>> ELSE <<HeaderRow(k)>>)
                        \o <<DataRow(k)>>]

\* except subprocess.CalledProcessError: print the error and the warning
AbortOnFailureBug == "aborted"
AfterCalledProcessError == "loop"

\* check_call returns or raises CalledProcessError; run_experiment.py exits 0
\* exactly when it has logged its row
ChildExit ==
    /\ d_pc = "wait"
    /\ \E status \in {0, 1, 2, 127} :
          /\ statuses' = Append(statuses, status)
          /\ csv_file' = IF status = 0 THEN AppendedBy(csv_file, run_idx + 1) ELSE csv_file
          /\ IF status = 0
             THEN d_pc' = "loop" /\ run_idx' = run_idx + 1
             ELSE /\ d_pc' = AfterCalledProcessError
                  /\ run_idx' = IF d_pc' = "loop" THEN run_idx + 1 ELSE run_idx
    /\ UNCHANGED <<d_args, cmd, num_runs, range_percent, windows, random_params, launched, reported,
                   interrupted, driver_exit>>
    /\ UNCHANGED <<sequential, l_pc, attempt, exists, f, opens, sleeps, order>>
    /\ UNCHANGED <<launcherVars, sweepVars>>

\* the count of the [ABORT] message: f"Stopping after {run_idx} runs."
ReportedOneMoreBug(idx) == idx + 1
ReportedRuns(idx) == idx

\* except KeyboardInterrupt: print [ABORT] and sys.exit(1); the child, killed
\* with the driver, may or may not have logged its row
InterruptDuringRun ==
    /\ d_pc = "wait"
    /\ interrupted' = TRUE
    /\ reported' = ReportedRuns(run_idx)
    /\ driver_exit' = 1
    /\ d_pc' = "aborted"
    /\ \E logged \in BOOLEAN :
          csv_file' = IF logged THEN AppendedBy(csv_file, run_idx + 1) ELSE csv_file
    /\ UNCHANGED <<d_args, cmd, num_runs, range_percent, run_idx, windows, random_params, launched,
                   statuses>>
    /\ UNCHANGED <<sequential, l_pc, attempt, exists, f, opens, sleeps, order>>
    /\ UNCHANGED <<launcherVars, sweepVars>>

\* a KeyboardInterrupt outside the try block is not caught: traceback, status 130
InterruptBetweenRuns ==
    /\ d_pc \in {"loop", "exec"}
    /\ interrupted' = TRUE
    /\ driver_exit' = 130
    /\ d_pc' = "killed"
    /\ UNCHANGED <<d_args, cmd, num_runs, range_percent, run_idx, windows, random_params, launched,
                   statuses, reported>>
    /\ UNCHANGED <<ledgerVars, launcherVars, sweepVars>>

\* lines 175-177: the loop is over, print [DONE]
DriverFinish ==
    /\ d_pc = "loop"
    /\ run_idx >= num_runs
    /\ d_pc' = "done"
    /\ driver_exit' = 0
    /\ UNCHANGED <<d_args, cmd, num_runs, range_percent, run_idx, windows, random_params, launched,
                   statuses, reported, interrupted>>
    /\ UNCHANGED <<ledgerVars, launcherVars, sweepVars>>

NoWindows == [q \in params_to_randomize |-> <<0, 0>>]
NoDraws == [q \in params_to_randomize |-> 0]

\* the values of --range-percent: every multiple of 1/PDen up to 1 + 2/PDen
RangePercents == 1..(PDen + 2)

DriverAt(n, rp, a) ==
    /\ d_pc = "loop"
    /\ d_args = a
    /\ cmd = <<>>
    /\ num_runs = n
    /\ range_percent = rp
    /\ run_idx = 0
    /\ windows = NoWindows
    /\ random_params = NoDraws
    /\ launched = <<>>
    /\ statuses = <<>>
    /\ reported = -1
    /\ interrupted = FALSE
    /\ driver_exit = -1

\* the sampled --env-path values and --no-graphics
EnvPaths == {"none", "None", "builds/3DBall"}
DriverArgs == [env_path : EnvPaths, no_graphics : BOOLEAN]

\* no campaign takes part
DriverIdle ==
    /\ d_pc = "off"
    /\ d_args = [env_path |-> "none", no_graphics |-> FALSE]
    /\ cmd = <<>>
    /\ num_runs = 0
    /\ range_percent = PDen
    /\ run_idx = 0
    /\ windows = NoWindows
    /\ random_params = NoDraws
    /\ launched = <<>>
    /\ statuses = <<>>
    /\ reported = -1
    /\ interrupted = FALSE
    /\ driver_exit = -1

(***************************************************************************)
(* The Sweep driver: sweep.main.                                           *)
(***************************************************************************)
\* np.linspace(start, stop, num), endpoint included: num evenly spaced values,
\* start + i * (stop - start) / (num - 1); with num = 1 the divisor is not used
\* and the one value is start; with num = 0 the grid is empty
linspace(start, stop, num) ==
    IF num = 1 THEN <<Frac(start, 1)>>
    ELSE [i \in 1..num |-> Frac(start * (num - 1) + (i - 1) * (stop - start), num - 1)]

\* values = np.linspace(args.start, args.end, args.steps)
SweepGrid ==
    /\ s_pc = "start"
    /\ values' = linspace(s_args.start, s_args.end, s_args.steps)
    /\ s_pc' = "loop"
    /\ UNCHANGED <<s_args, s_cmd, v_idx, repeat_idx, s_launched, s_statuses, s_interrupted,
                   s_exit>>
    /\ UNCHANGED <<ledgerVars, launcherVars, driverVars>>

\* for v in values: for repeat_idx in range(args.repeats): the position after
\* the inner loop's body was left with repeat index rep
SweepPosition(v, rep) ==
    IF rep + 1 < s_args.repeats THEN <<v, rep + 1>> ELSE <<v + 1, 0>>

\* cmd = [sys.executable, "run_experiment.py", ...] and the two extends; args
\* has no lr, so --lr is 3e-4; the swept value v is written by str(v)
SweepCommand(a) ==
    <<Opt(o_behavior_name, "str"), Opt(o_algorithm, "algo"), Opt(o_batch_size, "int"),
      Opt(o_lr, "float")>>
    \o (IF Lower(a.env_path) # "none"
        THEN <<Opt(o_set, "none"), Word("str"), Word("float")>> ELSE <<>>)
    \o <<Opt(o_set, "none"), Word("str"), Word("float")>>

\* the body of the inner loop up to the call: print the header, build cmd and
\* hand it to subprocess.check_call
SweepLaunch ==
    /\ s_pc = "loop"
    /\ v_idx < Len(values)
    /\ repeat_idx < s_args.repeats
    /\ s_cmd' = SweepCommand(s_args)
    /\ s_launched' = Append(s_launched, <<v_idx + 1, repeat_idx + 1>>)
    /\ s_pc' = "wait"
    /\ UNCHANGED <<s_args, values, v_idx, repeat_idx, s_statuses, s_interrupted, s_exit>>
    /\ UNCHANGED <<ledgerVars, launcherVars, driverVars>>

\* except subprocess.CalledProcessError: print the failure and continue with
\* the next repeat
BreakOnFailureBug(rep) == s_args.repeats
ContinueOnFailure(rep) == rep

\* check_call returns or raises CalledProcessError; run_experiment.py exits 0
\* exactly when it has logged its row
SweepChildExit ==
    /\ s_pc = "wait"
    /\ \E status \in {0, 2} :
          /\ s_statuses' = Append(s_statuses, status)
          /\ csv_file' = IF status = 0 THEN AppendedBy(csv_file, Len(s_launched))
                         ELSE csv_file
          /\ LET rep == IF status = 0 THEN repeat_idx ELSE ContinueOnFailure(repeat_idx)
                 pos == SweepPosition(v_idx, rep)
             IN  v_idx' = pos[1] /\ repeat_idx' = pos[2]
    /\ s_pc' = "loop"
    /\ UNCHANGED <<s_args, s_cmd, values, s_launched, s_interrupted, s_exit>>
    /\ UNCHANGED <<sequential, l_pc, attempt, exists, f, opens, sleeps, order>>
    /\ UNCHANGED <<launcherVars, driverVars>>

\* main catches no KeyboardInterrupt: traceback, status 130; the child, killed
\* with the driver, may or may not have logged its row
SweepInterrupt ==
    /\ s_pc \in {"loop", "wait"}
    /\ s_interrupted' = TRUE
    /\ s_exit' = 130
    /\ s_pc' = "killed"
    /\ \E logged \in BOOLEAN :
          csv_file' = IF logged /\ s_pc = "wait" THEN AppendedBy(csv_file, Len(s_launched))
                      ELSE csv_file
    /\ UNCHANGED <<s_args, s_cmd, values, v_idx, repeat_idx, s_launched, s_statuses>>
    /\ UNCHANGED <<sequential, l_pc, attempt, exists, f, opens, sleeps, order>>
    /\ UNCHANGED <<launcherVars, driverVars>>

\* both loops are exhausted: print("[DONE] Sweep complete!")
SweepFinish ==
    /\ s_pc = "loop"
    /\ v_idx >= Len(values) \/ s_args.repeats <= 0
    /\ s_pc' = "done"
    /\ s_exit' = 0
    /\ UNCHANGED <<s_args, s_cmd, values, v_idx, repeat_idx, s_launched, s_statuses, s_interrupted>>
    /\ UNCHANGED <<ledgerVars, launcherVars, driverVars>>

\* the sampled (start, end) pairs: ascending, one point, descending
StartEnds == {<<0, 2>>, <<3, 3>>, <<5, 1>>}

\* args of sweep.py after parse_args
SweepArgs ==
    {[start |-> se[1], end |-> se[2], steps |-> n, repeats |-> r, env_path |-> e] :
        se \in StartEnds, n \in 0..MaxSteps, r \in 0..MaxRepeats, e \in EnvPaths}

\* sweep.py starts with arguments a
SweepAt(a) ==
    /\ s_pc = "start"
    /\ s_args = a
    /\ s_cmd = <<>>
    /\ values = <<>>
    /\ v_idx = 0
    /\ repeat_idx = 0
    /\ s_launched = <<>>
    /\ s_statuses = <<>>
    /\ s_interrupted = FALSE
    /\ s_exit = -1

\* no sweep takes part
SweepIdle ==
    /\ s_pc = "off"
    /\ s_args = [start |-> 0, end |-> 0, steps |-> 0, repeats |-> 0, env_path |-> "none"]
    /\ s_cmd = <<>>
    /\ values = <<>>
    /\ v_idx = 0
    /\ repeat_idx = 0
    /\ s_launched = <<>>
    /\ s_statuses = <<>>
    /\ s_interrupted = FALSE
    /\ s_exit = -1

(***************************************************************************)
(* The specifications.                                                     *)
(***************************************************************************)
\* NProc launcher processes reach their ledger stage on one ledger file
InitLedger ==
    /\ csv_file \in {FreshFile, EarlierFile}
    /\ sequential \in BOOLEAN
    /\ LedgerIdle
    /\ LauncherIdle
    /\ DriverIdle
    /\ SweepIdle

NextLedger ==
    \/ \E p \in Procs : CallEnsureHeader(p)
    \/ \E p \in Procs : EnsureHeaderCheck(p)
    \/ \E p \in Procs : EnsureHeaderOpen(p)
    \/ \E p \in Procs : EnsureHeaderReturn(p)
    \/ \E p \in Procs : EnsureHeaderExcept(p)
    \/ \E p \in Procs : WriteRow(p)
    \/ \E p \in Procs : CloseFile(p)

SpecLedger == InitLedger /\ [][NextLedger]_vars

\* one run of run_experiment.py; the inputs vary one group at a time: the
\* arguments and the base config, the probed platform, the trainer's output
InitLauncher ==
    /\ csv_file \in {FreshFile, EarlierFile}
    /\ sequential = TRUE
    /\ LedgerIdle
    /\ DriverIdle
    /\ SweepIdle
    /\ \/ \E a \in ArgSamples, cfg \in BaseConfigs :
             LauncherAt(a, cfg, DefaultProbeEnv, DefaultOutput)
       \/ \E env \in ProbeEnvs :
             LauncherAt(DefaultArgs, DefaultConfig, env, DefaultOutput)
       \/ \E out \in Outputs :
             LauncherAt(DefaultArgs, DefaultConfig, DefaultProbeEnv, out)

NextLauncher ==
    \/ PatchConfig
    \/ DetectHardware
    \/ LaunchTrainer
    \/ ReadLine
    \/ WaitAndRecord
    \/ EnsureHeaderCheck(Me)
    \/ EnsureHeaderOpen(Me)
    \/ EnsureHeaderReturn(Me)
    \/ EnsureHeaderExcept(Me)
    \/ WriteRow(Me)
    \/ CloseFile(Me)
    \/ LoggedRun
    \/ LedgerLocked

SpecLauncher == InitLauncher /\ [][NextLauncher]_vars

\* one campaign of randomRuns.py
InitDriver ==
    /\ csv_file \in {FreshFile, EarlierFile}
    /\ sequential = TRUE
    /\ LedgerIdle
    /\ LauncherIdle
    /\ SweepIdle
    /\ \E n \in 0..MaxRuns, rp \in RangePercents, a \in DriverArgs : DriverAt(n, rp, a)

DriverProgress ==
    \/ DriverSample
    \/ DriverExec
    \/ ChildExit
    \/ DriverFinish

NextDriver ==
    \/ DriverSample
    \/ DriverExec
    \/ ChildExit
    \/ InterruptDuringRun
    \/ InterruptBetweenRuns
    \/ DriverFinish

SpecDriver == InitDriver /\ [][NextDriver]_vars

\* one campaign of sweep.py
InitSweep ==
    /\ csv_file \in {FreshFile, EarlierFile}
    /\ sequential = TRUE
    /\ LedgerIdle
    /\ LauncherIdle
    /\ DriverIdle
    /\ \E a \in SweepArgs : SweepAt(a)

SweepProgress ==
    \/ SweepGrid
    \/ SweepLaunch
    \/ SweepChildExit
    \/ SweepFinish

NextSweep ==
    \/ SweepGrid
    \/ SweepLaunch
    \/ SweepChildExit
    \/ SweepInterrupt
    \/ SweepFinish

SpecSweep == InitSweep /\ [][NextSweep]_vars

(***************************************************************************)
(* Properties of the Random-Run driver, under SpecDriver.                  *)
(***************************************************************************)
InOrder(runs) == runs = [k \in 1..Len(runs) |-> k]

\* C1: absent an interrupt a run that exits non-zero never stops the campaign:
\* the driver is always in its loop or done, never stuck short of done, the runs
\* are launched in the order 1, 2, ..., and at the end every one of the num_runs
\* runs has been launched exactly once and the driver exits normally.
C1_FailedRunsNeverStopCampaign ==
    ~interrupted =>
        /\ d_pc \in {"loop", "exec", "wait", "done"}
        /\ InOrder(launched)
        /\ d_pc # "done" => ENABLED DriverProgress
        /\ d_pc = "done" =>
              /\ Len(launched) = num_runs
              /\ Len(statuses) = num_runs
              /\ driver_exit = 0

\* a campaign of at least two runs is done, its first run having failed
C1_Witness ==
    /\ ~interrupted
    /\ d_pc = "done"
    /\ num_runs >= 2
    /\ statuses[1] # 0
    /\ statuses[2] = 0

\* C6: for every parameter of param_ranges (each has min < max) and every
\* range_percent the driver is given (every multiple of 1/PDen in (0, 1], and the
\* values above 1 that only the clamp keeps inside), the sampling window satisfies
\* min <= sampling_min <= sampling_max <= max.
C6_WindowInsideRange ==
    windows # NoWindows =>
        \A q \in params_to_randomize :
            /\ param_ranges[q].min * W <= windows[q][1]
            /\ windows[q][1] <= windows[q][2]
            /\ windows[q][2] <= param_ranges[q].max * W

\* windows were computed for a range_percent below 1 and lie strictly inside
C6_Witness ==
    /\ windows # NoWindows
    /\ range_percent < PDen
    /\ \A q \in params_to_randomize :
          /\ param_ranges[q].min * W < windows[q][1]
          /\ windows[q][2] < param_ranges[q].max * W

\* C10: an interrupt while run k executes ends the campaign: the driver reports
\* k-1 completed runs and exits non-zero, no run is launched after k, and no step
\* of the campaign changes or removes a row already in the ledger.
C10_InterruptStopsCampaign ==
    /\ [](d_pc = "aborted" =>
            /\ InOrder(launched)
            /\ launched # <<>>
            /\ reported = Len(launched) - 1
            /\ driver_exit > 0)
    /\ [][/\ d_pc = "aborted" => (d_pc' = "aborted" /\ launched' = launched)
          /\ IsPrefix(csv_file.rows, csv_file'.rows)]_vars

\* the third run was interrupted after two runs had logged their rows
C10_Witness ==
    /\ d_pc = "aborted"
    /\ Len(launched) = 3
    /\ reported = 2
    /\ \E k \in 1..Len(csv_file.rows) : csv_file.rows[k] = DataRow(2)

(***************************************************************************)
(* Properties of the ledger, under SpecLedger.                             *)
(***************************************************************************)
HeaderCount == Cardinality({k \in 1..Len(csv_file.rows) : csv_file.rows[k].kind = "header"})
StartedFresh == \A k \in 1..Len(csv_file.rows) : csv_file.rows[k].by # 0
Finished == \A p \in Procs : l_pc[p] \in {"done", "raised"}

\* C2: appends that run one after another on a ledger file that did not exist
\* leave one header row, the first row, and then one data row per finished
\* append, in the order of the appends.
C2_SequentialAppendsOneHeader ==
    (sequential /\ StartedFresh) =>
        csv_file.rows =
            IF order = <<>> THEN <<>>
            ELSE <<HeaderRow(order[1])>> \o [k \in 1..Len(order) |-> DataRow(order[k])]

\* every process has appended, one after another, to a fresh file
C2_Witness ==
    /\ sequential
    /\ StartedFresh
    /\ Len(order) = NProc
    /\ Len(csv_file.rows) = NProc + 1

\* C3: whatever the interleaving of concurrent appends, the ledger ends with
\* exactly one header row, which precedes every data row.
C3_OneHeaderUnderConcurrency ==
    (Finished /\ order # <<>>) =>
        /\ HeaderCount = 1
        /\ csv_file.rows[1].kind = "header"

\* C4: an append makes at most `retries` open attempts, sleeping once between
\* consecutive attempts; it goes on to write after the first attempt that does
\* not fail; when all attempts fail it raises after the last one without
\* sleeping again, and nothing of it reaches the file.
C4_BoundedRetry ==
    \A p \in Procs :
        /\ opens[p] <= retries
        /\ l_pc[p] \in {"check", "open"} => opens[p] = sleeps[p]
        /\ l_pc[p] \in {"except", "opened", "writerow", "close", "done"} =>
              opens[p] = sleeps[p] + 1
        /\ l_pc[p] \in {"idle", "check", "open", "except", "opened", "writerow",
                        "close", "done", "raised"}
        /\ l_pc[p] = "raised" =>
              /\ opens[p] = retries
              /\ sleeps[p] = retries - 1
              /\ f[p] = <<>>
              /\ \A k \in 1..Len(csv_file.rows) : csv_file.rows[k].by # p

\* one append gave up after all its attempts, another got through after a retry
C4_Witness ==
    \E p, q \in Procs :
        /\ l_pc[p] = "raised"
        /\ l_pc[q] = "done"
        /\ sleeps[q] > 0

(***************************************************************************)
(* Properties of one run of the launcher, under SpecLauncher.              *)
(***************************************************************************)
RowsOfRun == {k \in 1..Len(csv_file.rows) : csv_file.rows[k] = DataRow(Me)}
ExitStatusFields == {"exit_status", "exit_code", "returncode"}

\* C5: a trainer that started and exited non-zero still gets exactly one record
\* in the ledger, and the record carries the trainer's exit status.
C5_FailedRunIsRecordedWithStatus ==
    (m_exit # -1 /\ trainer.started /\ trainer.returncode > 0) =>
        /\ Cardinality(RowsOfRun) = 1
        /\ \E fld \in ExitStatusFields \cap DOMAIN row : row[fld] = trainer.returncode

\* the probe has run
Probed == gen_cfg # <<>> /\ m_pc \notin {"start", "probe"}

\* the query utility was missing, timed out, exited non-zero, printed nothing,
\* or printed a first line that is not `name, memory`
ProbeFailed(env) ==
    \/ /\ env.system \in {"windows", "linux"}
       /\ (env.smi.status # "ok" \/ Len(env.smi.out) # 2)
    \/ /\ env.system = "darwin"
       /\ env.profiler.status # "ok"

\* C7: on every platform and for every outcome of the query utility detect_gpu
\* returns a pair without raising and the run goes on to launch the trainer;
\* when the probe failed the pair is (None, None).
C7_ProbeNeverFatal ==
    Probed =>
        /\ Len(gpu) = 1
        /\ m_error # "TypeError"
        /\ ProbeFailed(probe_env) => gpu[1] = [name |-> <<>>, mem |-> <<>>]

\* C8: patching for behavior B renames the placeholder entry to B when the
\* placeholder is a key and B is not (B then holds the placeholder's entry with
\* the patched fields, the placeholder is gone); leaves the keys alone when B is
\* a key; and ends in the configuration error, exit code 2, exactly when neither
\* is a key, with no generated config written and no trainer launched.
C8_PlaceholderRename ==
    LET B == args.behavior_name
        hadP == Placeholder \in DOMAIN base_cfg
        hadB == B \in DOMAIN base_cfg
    IN  m_pc # "start" =>
          /\ (hadP /\ ~hadB) =>
                /\ DOMAIN behaviors = (DOMAIN base_cfg \ {Placeholder}) \cup {B}
                /\ behaviors[B].trainer_type = args.algorithm
                /\ behaviors[B].hyperparameters.learning_rate = args.lr
                /\ behaviors[B].hyperparameters.batch_size = args.batch_size
                /\ behaviors[B].hyperparameters.buffer_size =
                       base_cfg[Placeholder].hyperparameters.buffer_size
                /\ behaviors[B].max_steps =
                       IF args.max_steps # <<>> THEN args.max_steps[1]
                       ELSE base_cfg[Placeholder].max_steps
          /\ hadB =>
                /\ DOMAIN behaviors = DOMAIN base_cfg
                /\ \A k \in DOMAIN base_cfg \ {B} : behaviors[k] = base_cfg[k]
          /\ (m_error = "ConfigError" /\ m_exit = 2) <=> (~hadB /\ ~hadP)
          /\ m_error = "ConfigError" =>
                /\ gen_cfg = <<>>
                /\ ~trainer.started
                /\ m_pc = "exit"

\* a config holding the placeholder and another behavior was patched for Goalie
C8_Witness ==
    /\ m_pc = "probe"
    /\ DOMAIN base_cfg = {Placeholder, "Striker"}
    /\ args.behavior_name = "Goalie"
    /\ DOMAIN behaviors = {"Goalie", "Striker"}

\* the rewards the lines of the trainer's output report, in order
RECURSIVE Reported(_)
Reported(out) ==
    IF out = <<>> THEN <<>> ELSE out[1].reward \o Reported(Tail(out))

\* C9: the metric recorded for a run is the arithmetic mean of the rewards that
\* the lines of the trainer's output report after the marker, 0.0 when no line
\* reports one; lines without the marker change nothing.
C9_MetricIsMeanOfRewards ==
    trainer.returncode # -1 =>
        LET vals == Reported(trainer.stdout)
            total == SumFrac(vals)
        IN  /\ row.mean_reward = mean_reward
            /\ mean_reward.den > 0
            /\ IF vals = <<>> THEN mean_reward.num = 0
               ELSE mean_reward.num * total.den * Len(vals) = total.num * mean_reward.den

\* three lines reporting 1.0, 2.0 and 3.0 gave the metric 2.0
C9_Witness ==
    /\ trainer.returncode # -1
    /\ Len(trainer.stdout) = 3
    /\ Reported(trainer.stdout) = <<Frac(1, 1), Frac(2, 1), Frac(3, 1)>>
    /\ mean_reward = Frac(2, 1)

(***************************************************************************)
(* Properties of the Sweep driver, under SpecSweep.                        *)
(***************************************************************************)
\* the k-th invocation of a sweep with r repeats: value number, repeat number
GridOrder(k, r) == <<((k - 1) \div r) + 1, ((k - 1) % r) + 1>>

\* C11: absent an interrupt the sweep performs exactly steps x repeats
\* invocations, value-major: the k-th invocation is repeat ((k-1) mod repeats)+1
\* of grid value ((k-1) div repeats)+1, so all repeats of one value come before
\* the next value; a run that exits non-zero never stops it: the driver is never
\* stuck short of done and ends with status 0 after every invocation; with
\* steps = 1 the grid is exactly [start] and there are `repeats` invocations.
C11_SweepRunsWholeGrid ==
    ~s_interrupted =>
        /\ s_pc \in {"start", "loop", "wait", "done"}
        /\ \A k \in 1..Len(s_launched) : s_launched[k] = GridOrder(k, s_args.repeats)
        /\ s_pc # "done" => ENABLED SweepProgress
        /\ s_pc # "start" =>
              /\ Len(values) = s_args.steps
              /\ s_args.steps = 1 => values = <<[num |-> s_args.start, den |-> 1]>>
        /\ s_pc = "done" =>
              /\ Len(s_launched) = s_args.steps * s_args.repeats
              /\ Len(s_statuses) = Len(s_launched)
              /\ s_args.steps = 1 => Len(s_launched) = s_args.repeats
              /\ s_exit = 0

\* a sweep of several values and repeats ended although its first run failed
C11_Witness ==
    /\ s_pc = "done"
    /\ s_args.steps >= 2
    /\ s_args.repeats >= 2
    /\ s_statuses[1] # 0
    /\ ~s_interrupted

(***************************************************************************)
(* Properties of the command lines, under SpecDriver and SpecSweep.        *)
(***************************************************************************)
\* C12: every command line a driver has built for run_experiment.py gets past
\* parse_args: it supplies every option the parser requires, uses only options
\* the parser defines, and so is not rejected with exit status 2.
C12_DriverCommandsPassParsing ==
    /\ d_pc \in {"exec", "wait"} => parse_args(cmd) = Parsed
    /\ s_pc = "wait" => parse_args(s_cmd) = Parsed

====
